---------------------------- MODULE Spec2Model ----------------------------
(***************************************************************************)
(* The plugin session engine of bin/plugin-client.py: MessageHistory (the   *)
(* message store and the pending-request table), the child process and its  *)
(* three pipes, the operator's action handlers, the stdout and stderr read  *)
(* loops, and the echo plugin of plugins/echo.py as one possible child.     *)
(*                                                                          *)
(* A message is a record holding exactly the fields the JSON document has:  *)
(* "id" \in DOMAIN m is Python's "id" in message.  None is the empty        *)
(* sequence and a present value m is <<m>>.                                 *)
(***************************************************************************)
EXTENDS Integers, Sequences, FiniteSets, TLC

\* ------------------------------------------------------------------ bounds
\* get_next_request_id is not called once next_request_id exceeds MaxId.
MaxId == 4
\* Lines the plugin has written to stdout that the read loop has not read yet.
MaxPipe == 2
\* SpecHistory: the longest history built and the largest limit asked for.
MaxHistory == 4
MaxLimit == 3

\* ---------------------------------------------------------------- messages
EmptyDoc == [f \in {} |-> 0]
Request(i, method, params) == [id |-> i, method |-> method, params |-> params]
Notification(method) == [method |-> method]
Reply(i) == [id |-> i, result |-> "ok"]

HasId(m) == "id" \in DOMAIN m

\* What the operator types into the search dialog.
SearchTerms == {"files"}
\* The ids the operator types into the custom JSON dialog: one the counter has
\* passed when the dialog opens, and one it has yet to reach.
CustomIds == {1, 4}
\* The ids a child that is not the echo plugin answers with.
ReplyIds == {1}

\* What the operator may type into the custom JSON dialog: the empty template,
\* or the request template with the id, the method and the params edited.
CustomMessages == {EmptyDoc} \cup {Request(i, "search", "calc") : i \in CustomIds}

\* A stdout line: a JSON object, or text json.loads rejects.
JsonLine(m) == [kind |-> "json", message |-> m]
MalformedLine == [kind |-> "malformed"]
PluginLines ==
    {JsonLine(Reply(i)) : i \in ReplyIds} \cup {JsonLine(Notification("log")), MalformedLine}

\* Lines whose content raises something other than JSONDecodeError in the loop:
\* bytes line.decode() rejects, the JSON document null, and a JSON object whose
\* id is a list.
NotUtf8Line == [kind |-> "not_utf8"]
NullLine == [kind |-> "null"]
ListIdLine == [kind |-> "list_id"]
ContentLines == {NotUtf8Line, NullLine, ListIdLine}

LifecycleStates == {"Stopped", "Running", "Disconnected", "Terminated", "Crashed", "Failed"}
\* The states in which the spec accepts no send.
InactiveStates == {"Stopped", "Disconnected", "Terminated", "Crashed", "Failed"}

\* --------------------------------------------------- MessageHistory (pure)
NoTime == -1

SentEntry(m, t) == [type |-> "sent", message |-> m, timestamp |-> t]

\* A table that keeps the timestamp of the first request sent under an id.
PendingAfterSentFirst(pending, m, t) ==
    IF HasId(m) /\ m.id \notin DOMAIN pending
    THEN [i \in DOMAIN pending \cup {m.id} |-> IF i = m.id THEN t ELSE pending[i]]
    ELSE pending

\* add_sent_message: the pending table after recording m at time t.
PendingAfterSent(pending, m, t) ==
    IF HasId(m)
    THEN [i \in DOMAIN pending \cup {m.id} |-> IF i = m.id THEN t ELSE pending[i]]
    ELSE pending

Matches(pending, m) == HasId(m) /\ m.id \in DOMAIN pending

\* A store that forgets to pop the entry of an answered request.
PendingKept(pending, m) == pending

\* add_received_message: the pending table after recording m.
PendingAfterReceived(pending, m) ==
    IF Matches(pending, m)
    THEN [i \in DOMAIN pending \ {m.id} |-> pending[i]]
    ELSE pending

\* add_received_message: response_time of the entry (NoTime is None).
ResponseTime(pending, m, t) ==
    IF Matches(pending, m) THEN (t - pending[m.id]) * 1000 ELSE NoTime

ReceivedEntry(pending, m, t) ==
    [type |-> "received", message |-> m, timestamp |-> t,
     response_time |-> ResponseTime(pending, m, t)]

IsSearch(entry) ==
    /\ entry.type = "sent"
    /\ "method" \in DOMAIN entry.message
    /\ entry.message.method = "search"
    /\ "params" \in DOMAIN entry.message

InSeq(x, s) == \E i \in 1..Len(s) : s[i] = x

\* get_recent_searches: the loop over reversed(messages), from index i down,
\* with the list collected so far.
RECURSIVE RecentFrom(_, _, _, _)
RecentFrom(msgs, i, searches, limit) ==
    IF i = 0 THEN searches
    ELSE IF IsSearch(msgs[i]) /\ ~InSeq(msgs[i].message.params, searches)
         THEN LET found == Append(searches, msgs[i].message.params)
              IN  IF Len(found) >= limit THEN found
                  ELSE RecentFrom(msgs, i - 1, found, limit)
         ELSE RecentFrom(msgs, i - 1, searches, limit)

get_recent_searches(msgs, limit) == RecentFrom(msgs, Len(msgs), <<>>, limit)

\* get_recent_searches(self, limit: int = 5)
DefaultLimit == 5

\* ------------------------------------------------------------------- state
VARIABLES
    plugin_status,          \* PluginDebuggerApp.plugin_status
    plugin_process,         \* TRUE when self.plugin_process holds a process
    messages,               \* MessageHistory.messages
    pending_requests,       \* MessageHistory.pending_requests: id -> timestamp
    next_request_id,        \* MessageHistory.next_request_id
    last_sent_message,      \* <<>> is None
    last_received_message,  \* <<>> is None
    clock,                  \* time.time()
    op,                     \* the operator's handler: where it is, what it sends
    last_result,            \* what the latest _send_message call logged
    stdout_task,            \* _read_plugin_output: "none", "reading", "ended"
    stderr_task,            \* _read_plugin_errors: "none", "reading", "ended"
    reader_event,           \* what the stdout loop logged last
    ended_from,             \* the lifecycle state the stdout loop ended in
    plugin,                 \* the child: which program, whether it runs
    stdin_pipe,             \* lines written to the echo plugin it has not read yet
    stdout_pipe,            \* lines the child wrote that were not read yet
    returned,               \* the values get_next_request_id returned, in order
    outstanding,            \* ids written to the child with no reply received since
    recent,                 \* what the latest get_recent_searches call returned
    search_limit            \* the limit of that call

vars == <<plugin_status, plugin_process, messages, pending_requests, next_request_id,
          last_sent_message, last_received_message, clock, op, last_result,
          stdout_task, stderr_task, reader_event, ended_from, plugin, stdin_pipe,
          stdout_pipe, returned, outstanding, recent, search_limit>>

store == <<messages, pending_requests, clock>>
pipes == <<stdin_pipe, stdout_pipe>>
tasks == <<stdout_task, stderr_task, reader_event, ended_from>>
search_vars == <<recent, search_limit>>

Idle == [pc |-> "idle"]
NoPlugin == [kind |-> "none", alive |-> FALSE]

Init ==
    /\ plugin_status = "Stopped"
    /\ plugin_process = FALSE
    /\ messages = <<>>
    /\ pending_requests = [i \in {} |-> 0]
    /\ next_request_id = 1
    /\ last_sent_message = <<>>
    /\ last_received_message = <<>>
    /\ clock = 0
    /\ op = [pc |-> "mount"]
    /\ last_result = "none"
    /\ stdout_task = "none"
    /\ stderr_task = "none"
    /\ reader_event = "none"
    /\ ended_from = "none"
    /\ plugin = NoPlugin
    /\ stdin_pipe = <<>>
    /\ stdout_pipe = <<>>
    /\ returned = <<>>
    /\ outstanding = {}
    /\ recent = <<>>
    /\ search_limit = DefaultLimit

\* ------------------------------------------------ MessageHistory (actions)
\* A counter that hands out its value without moving on.
get_next_request_id_reused ==
    /\ next_request_id <= MaxId
    /\ returned' = Append(returned, next_request_id)
    /\ next_request_id' = next_request_id

\* get_next_request_id: returns next_request_id and increments it.
get_next_request_id ==
    /\ next_request_id <= MaxId
    /\ returned' = Append(returned, next_request_id)
    /\ next_request_id' = next_request_id + 1

NoAllocation == UNCHANGED <<next_request_id, returned>>

\* _update_status_display: the labels and buttons it writes are not state of
\* the engine; its call of get_next_request_id is.
update_status_display == get_next_request_id


\* ------------------------------------------------------------- _send_message
\* The handler that called _send_message goes on after it: action_quit_plugin
\* sleeps, the others return.
AfterSend(handler) == IF handler = "quit" THEN [pc |-> "sleeping"] ELSE Idle

\* The statuses _send_message refuses to send in.
RefusedStatuses == {"Disconnected", "Terminated", "Crashed", "Failed"}

\* A write to the child's stdin can fail only once the child is gone.
WriteOutcomes == IF plugin.alive THEN {"ok"} ELSE {"ok", "broken", "error"}

\* Whether what is written to the child's stdin is read as input that decides
\* its output: the echo plugin's is; what any other child writes is not tied to
\* what it read.
Reads(child) == child.alive /\ child.kind = "echo"

\* A value json.dumps has no encoding for (a set, an object of some class).
OpaqueValue == "<object>"

\* Whether json.dumps(m) returns: it raises TypeError on a value it cannot
\* encode.  In the messages of this model only params holds arbitrary values.
Serializable(m) == ~("params" \in DOMAIN m /\ m.params = OpaqueValue)

\* A send that writes without encoding first.
send_message_unencoded(m, handler) ==
    IF ~plugin_process
    THEN /\ last_result' = "no_process"
         /\ op' = AfterSend(handler)
         /\ UNCHANGED <<stdin_pipe, outstanding>>
    ELSE IF plugin_status \in RefusedStatuses
    THEN /\ last_result' = "inactive"
         /\ op' = AfterSend(handler)
         /\ UNCHANGED <<stdin_pipe, outstanding>>
    ELSE \E w \in WriteOutcomes :
         /\ last_result' = "writing"
         /\ op' = [pc |-> "writing", message |-> m, handler |-> handler, write |-> w]
         /\ stdin_pipe' = IF w = "ok" /\ Reads(plugin) THEN Append(stdin_pipe, m) ELSE stdin_pipe
         /\ outstanding' = IF w = "ok" /\ HasId(m) THEN outstanding \cup {m.id} ELSE outstanding

\* _send_message up to its await of stdin.send: the two early returns, the
\* exception of json.dumps (caught and logged, nothing was written), or the
\* write is issued (the bytes are in the pipe when the write is to succeed) and
\* the handler waits for it.
send_message(m, handler) ==
    IF ~plugin_process
    THEN /\ last_result' = "no_process"
         /\ op' = AfterSend(handler)
         /\ UNCHANGED <<stdin_pipe, outstanding>>
    ELSE IF plugin_status \in RefusedStatuses
    THEN /\ last_result' = "inactive"
         /\ op' = AfterSend(handler)
         /\ UNCHANGED <<stdin_pipe, outstanding>>
    ELSE IF ~Serializable(m)
    THEN /\ last_result' = "encode_error"
         /\ op' = AfterSend(handler)
         /\ UNCHANGED <<stdin_pipe, outstanding>>
    ELSE \E w \in WriteOutcomes :
         /\ last_result' = "writing"
         /\ op' = [pc |-> "writing", message |-> m, handler |-> handler, write |-> w]
         /\ stdin_pipe' = IF w = "ok" /\ Reads(plugin) THEN Append(stdin_pipe, m) ELSE stdin_pipe
         /\ outstanding' = IF w = "ok" /\ HasId(m) THEN outstanding \cup {m.id} ELSE outstanding

\* _send_message after the write succeeded: add_sent_message, last_sent_message,
\* _update_status_display.
SendRecorded ==
    /\ op.pc = "writing" /\ op.write = "ok"
    /\ clock' = clock + 1
    /\ messages' = Append(messages, SentEntry(op.message, clock'))
    /\ pending_requests' = PendingAfterSent(pending_requests, op.message, clock')
    /\ last_sent_message' = <<op.message>>
    /\ update_status_display
    /\ last_result' = "sent"
    /\ op' = AfterSend(op.handler)
    /\ UNCHANGED <<plugin_status, plugin_process, last_received_message, tasks, plugin,
                   pipes, outstanding, search_vars>>

\* A send that records the message before it knows the write went through.
SendBrokenRecorded ==
    /\ op.pc = "writing" /\ op.write = "broken"
    /\ clock' = clock + 1
    /\ messages' = Append(messages, SentEntry(op.message, clock'))
    /\ pending_requests' = PendingAfterSent(pending_requests, op.message, clock')
    /\ last_sent_message' = <<op.message>>
    /\ plugin_status' = "Disconnected"
    /\ update_status_display
    /\ last_result' = "disconnected"
    /\ op' = AfterSend(op.handler)
    /\ UNCHANGED <<plugin_process, last_received_message, tasks, plugin, pipes, outstanding,
                   search_vars>>

\* _send_message after the write raised BrokenResourceError or EndOfStream.
SendBroken ==
    /\ op.pc = "writing" /\ op.write = "broken"
    /\ plugin_status' = "Disconnected"
    /\ update_status_display
    /\ last_result' = "disconnected"
    /\ op' = AfterSend(op.handler)
    /\ UNCHANGED <<plugin_process, store, last_sent_message, last_received_message, tasks,
                   plugin, pipes, outstanding, search_vars>>

\* _send_message after the write raised any other exception: it is logged.
SendError ==
    /\ op.pc = "writing" /\ op.write = "error"
    /\ last_result' = "error"
    /\ op' = AfterSend(op.handler)
    /\ UNCHANGED <<plugin_status, plugin_process, store, last_sent_message,
                   last_received_message, tasks, plugin, pipes, outstanding, search_vars,
                   next_request_id, returned>>

\* ------------------------------------------------------------------ on_mount
\* A start that launches the read loops before it knows a process was created.
MountLoopsFirst ==
    /\ op.pc = "mount"
    /\ stdout_task' = "reading"
    /\ stderr_task' = "reading"
    /\ \/ \E kind \in {"echo", "other"} :
            /\ plugin' = [kind |-> kind, alive |-> TRUE]
            /\ plugin_process' = TRUE
            /\ plugin_status' = "Running"
       \/ /\ plugin_status' = "Failed"
          /\ UNCHANGED <<plugin, plugin_process>>
    /\ update_status_display
    /\ op' = Idle
    /\ UNCHANGED <<store, last_sent_message, last_received_message, last_result,
                   reader_event, ended_from, pipes, outstanding, search_vars>>

\* _start_plugin: anyio.open_process succeeds (the child is the echo plugin or
\* some other program) or raises; then _update_status_display.
Mount ==
    /\ op.pc = "mount"
    /\ \/ \E kind \in {"echo", "other"} :
            /\ plugin' = [kind |-> kind, alive |-> TRUE]
            /\ plugin_process' = TRUE
            /\ plugin_status' = "Running"
            /\ stdout_task' = "reading"
            /\ stderr_task' = "reading"
       \/ /\ plugin_status' = "Failed"
          /\ UNCHANGED <<plugin, plugin_process, stdout_task, stderr_task>>
    /\ update_status_display
    /\ op' = Idle
    /\ UNCHANGED <<store, last_sent_message, last_received_message, last_result,
                   reader_event, ended_from, pipes, outstanding, search_vars>>

\* ----------------------------------------------------------- action handlers
handler_frame == <<plugin_status, plugin_process, store, last_sent_message,
                   last_received_message, tasks, plugin, stdout_pipe>>

\* action_search: the dialog gets get_recent_searches(), which changes nothing
\* (SpecHistory applies it); a dismissed dialog sends nothing, a query is sent
\* under a fresh id.
action_search ==
    /\ op.pc = "idle"
    /\ \/ /\ NoAllocation
          /\ UNCHANGED <<op, last_result, stdin_pipe, outstanding>>
       \/ \E query \in SearchTerms :
            /\ get_next_request_id
            /\ send_message(Request(next_request_id, "search", query), "search")
    /\ UNCHANGED <<handler_frame, search_vars>>

\* A cancel that does not look at the pending table.
action_cancel_always ==
    /\ op.pc = "idle"
    /\ send_message(Notification("cancel"), "cancel")
    /\ NoAllocation
    /\ UNCHANGED <<handler_frame, search_vars>>

\* action_cancel
action_cancel ==
    /\ op.pc = "idle"
    /\ IF DOMAIN pending_requests = {}
       THEN /\ last_result' = "nothing_pending"
            /\ UNCHANGED <<op, stdin_pipe, outstanding>>
       ELSE send_message(Notification("cancel"), "cancel")
    /\ NoAllocation
    /\ UNCHANGED <<handler_frame, search_vars>>

\* action_quit_plugin up to its sleep.
action_quit_plugin ==
    /\ op.pc = "idle"
    /\ send_message(Notification("quit"), "quit")
    /\ NoAllocation
    /\ UNCHANGED <<handler_frame, search_vars>>

\* action_quit_plugin after its sleep: terminate() and Stopped when a process
\* is held.  terminate() signals the child and returns; the child's exit is
\* PluginExit.
QuitTerminate ==
    /\ op.pc = "sleeping"
    /\ IF plugin_process
       THEN /\ plugin_status' = "Stopped"
            /\ update_status_display
       ELSE /\ UNCHANGED plugin_status
            /\ NoAllocation
    /\ op' = Idle
    /\ UNCHANGED <<plugin_process, store, last_sent_message, last_received_message,
                   last_result, tasks, plugin, pipes, outstanding, search_vars>>

\* action_custom_json: the dialog is built with get_next_request_id(); what the
\* operator sends back is parsed and sent as it is, or the dialog is cancelled.
action_custom_json ==
    /\ op.pc = "idle"
    /\ get_next_request_id
    /\ \/ UNCHANGED <<op, last_result, stdin_pipe, outstanding>>
       \/ \E m \in CustomMessages : send_message(m, "custom_json")
    /\ UNCHANGED <<handler_frame, search_vars>>

\* The copy action_repeat_last sends: the id replaced by a fresh one.
RepeatCopy(m, fresh) == IF HasId(m) THEN [m EXCEPT !.id = fresh] ELSE m

\* `not self.last_sent_message`: None, or a dict with no key.
NothingToRepeat == last_sent_message = <<>> \/ last_sent_message[1] = EmptyDoc

\* A repeat that rewrites the id on the last sent message itself, which the
\* history entry refers to, instead of on a copy.
action_repeat_last_in_place ==
    /\ op.pc = "idle"
    /\ IF NothingToRepeat
       THEN /\ last_result' = "nothing_to_repeat"
            /\ NoAllocation
            /\ UNCHANGED <<op, stdin_pipe, outstanding, messages>>
       ELSE /\ IF HasId(last_sent_message[1]) THEN get_next_request_id ELSE NoAllocation
            /\ send_message(RepeatCopy(last_sent_message[1], next_request_id), "repeat_last")
            /\ messages' = [i \in 1..Len(messages) |->
                              IF messages[i].type = "sent"
                                 /\ messages[i].message = last_sent_message[1]
                              THEN [messages[i] EXCEPT
                                       !.message = RepeatCopy(last_sent_message[1],
                                                              next_request_id)]
                              ELSE messages[i]]
    /\ UNCHANGED <<plugin_status, plugin_process, pending_requests, clock,
                   last_sent_message, last_received_message, tasks, plugin, stdout_pipe,
                   search_vars>>

\* action_repeat_last
action_repeat_last ==
    /\ op.pc = "idle"
    /\ IF NothingToRepeat
       THEN /\ last_result' = "nothing_to_repeat"
            /\ NoAllocation
            /\ UNCHANGED <<op, stdin_pipe, outstanding>>
       ELSE /\ IF HasId(last_sent_message[1]) THEN get_next_request_id ELSE NoAllocation
            /\ send_message(RepeatCopy(last_sent_message[1], next_request_id), "repeat_last")
    /\ UNCHANGED <<handler_frame, search_vars>>

\* A clear that resets the whole MessageHistory, the pending table included.
action_clear_history_all ==
    /\ op.pc = "idle"
    /\ messages' = <<>>
    /\ pending_requests' = [i \in {} |-> 0]
    /\ UNCHANGED <<plugin_status, plugin_process, next_request_id, last_sent_message,
                   last_received_message, clock, op, last_result, tasks, plugin, pipes,
                   returned, outstanding, search_vars>>

\* action_clear_history
action_clear_history ==
    /\ op.pc = "idle"
    /\ messages' = <<>>
    /\ UNCHANGED <<plugin_status, plugin_process, pending_requests, next_request_id,
                   last_sent_message, last_received_message, clock, op, last_result, tasks,
                   plugin, pipes, returned, outstanding, search_vars>>

\* ------------------------------------------------------ _read_plugin_output
\* What json.loads makes of a chunk of k lines: one whole line that holds a JSON
\* document is that document; anything else (a malformed line, or several lines
\* in one chunk) raises JSONDecodeError.
Decodes(chunk) == Len(chunk) = 1 /\ chunk[1].kind = "json"

\* _handle_received_message: add_received_message, last_received_message,
\* _update_status_display.
handle_received_message(m) ==
    /\ clock' = clock + 1
    /\ messages' = Append(messages, ReceivedEntry(pending_requests, m, clock'))
    /\ pending_requests' = PendingAfterReceived(pending_requests, m)
    /\ last_received_message' = <<m>>
    /\ outstanding' = IF HasId(m) THEN outstanding \ {m.id} ELSE outstanding
    /\ update_status_display

\* What a chunk raises that json.JSONDecodeError does not cover: line.decode()
\* raises UnicodeDecodeError on bytes that are not UTF-8; add_received_message
\* raises TypeError on `"id" in None` and on a list looked up in the table.
Raises(chunk) ==
    \/ \E i \in 1..Len(chunk) : chunk[i].kind = "not_utf8"
    \/ Len(chunk) = 1 /\ chunk[1].kind \in {"null", "list_id"}

\* The loop ends: its status, then _update_status_display.
loop_ends(status, event) ==
    /\ plugin_status' = status
    /\ reader_event' = event
    /\ ended_from' = plugin_status
    /\ stdout_task' = "ended"
    /\ update_status_display

\* One turn of the loop: receive(8192) returns the next k lines of the pipe as
\* one chunk, which is decoded and handled, or reported as invalid JSON, or
\* raises an exception that only the outer handler catches.
ReadChunk(k) ==
    /\ stdout_task = "reading"
    /\ k \in 1..Len(stdout_pipe)
    /\ stdout_pipe' = SubSeq(stdout_pipe, k + 1, Len(stdout_pipe))
    /\ IF Decodes(SubSeq(stdout_pipe, 1, k))
       THEN /\ handle_received_message(stdout_pipe[1].message)
            /\ reader_event' = "received"
            /\ UNCHANGED <<plugin_status, stdout_task, ended_from>>
       ELSE IF Raises(SubSeq(stdout_pipe, 1, k))
       THEN /\ loop_ends("Crashed", "content")
            /\ UNCHANGED <<store, last_received_message, outstanding>>
       ELSE /\ reader_event' = "decode_error"
            /\ NoAllocation
            /\ UNCHANGED <<store, last_received_message, outstanding, plugin_status,
                           stdout_task, ended_from>>
    /\ UNCHANGED <<plugin_process, last_sent_message, op, last_result, stderr_task, plugin,
                   stdin_pipe, search_vars>>

\* What is left in the pipe of a line whose first part was read.
Rest(line) == IF line.kind = "not_utf8" THEN line ELSE MalformedLine

\* receive(8192) returns only the first part of the first line: the part is
\* invalid JSON, and so is what is left of the line.
ReadPartial ==
    /\ stdout_task = "reading"
    /\ stdout_pipe # <<>>
    /\ stdout_pipe' = <<Rest(Head(stdout_pipe))>> \o Tail(stdout_pipe)
    /\ reader_event' = "decode_error"
    /\ NoAllocation
    /\ UNCHANGED <<plugin_status, plugin_process, store, last_sent_message,
                   last_received_message, op, last_result, stdout_task, stderr_task,
                   ended_from, plugin, stdin_pipe, outstanding, search_vars>>

\* receive returns nothing or raises: the loop ends.
reader_ends(status, event) ==
    /\ stdout_task = "reading"
    /\ loop_ends(status, event)
    /\ UNCHANGED <<plugin_process, store, last_sent_message, last_received_message, op,
                   last_result, stderr_task, plugin, pipes, outstanding, search_vars>>

\* A loop that reads the empty chunk of a closed stream and goes on reading.
ReadEofMissed ==
    /\ ~plugin.alive /\ stdout_pipe = <<>>
    /\ stdout_task = "reading"
    /\ reader_event' = "eof"
    /\ UNCHANGED <<plugin_status, plugin_process, store, next_request_id, last_sent_message,
                   last_received_message, op, last_result, stdout_task, stderr_task,
                   ended_from, plugin, pipes, returned, outstanding, search_vars>>

\* An empty read or EndOfStream: the child closed its stdout and all it wrote
\* was read.
ReadEof == ~plugin.alive /\ stdout_pipe = <<>> /\ reader_ends("Disconnected", "eof")

\* receive raises BrokenResourceError: a read fails only once the child is gone.
ReadBroken == ~plugin.alive /\ reader_ends("Terminated", "broken")

\* receive raises any other exception (a read fails only once the child is gone).
ReadCrash == ~plugin.alive /\ reader_ends("Crashed", "crash")

\* ------------------------------------------------------ _read_plugin_errors
\* A chunk of stderr is written to the plugin log panel.
StderrChunk ==
    /\ stderr_task = "reading"
    /\ plugin.alive
    /\ UNCHANGED vars

\* A stderr loop that reports the end of its stream as the stdout loop does.
StderrEndDisconnects ==
    /\ stderr_task = "reading"
    /\ ~plugin.alive
    /\ stderr_task' = "ended"
    /\ plugin_status' = "Disconnected"
    /\ UNCHANGED <<plugin_process, store, next_request_id, last_sent_message,
                   last_received_message, op, last_result, stdout_task, reader_event,
                   ended_from, plugin, pipes, returned, outstanding, search_vars>>

\* A chunk of stderr that line.decode() rejects: the exception is logged to the
\* plugin log panel and the loop is over, with the child still running.
StderrContent ==
    /\ stderr_task = "reading"
    /\ plugin.alive
    /\ stderr_task' = "ended"
    /\ UNCHANGED <<plugin_status, plugin_process, store, next_request_id, last_sent_message,
                   last_received_message, op, last_result, stdout_task, reader_event,
                   ended_from, plugin, pipes, returned, outstanding, search_vars>>

\* An empty read, EndOfStream, BrokenResourceError or any other exception.
StderrEnd ==
    /\ stderr_task = "reading"
    /\ ~plugin.alive
    /\ stderr_task' = "ended"
    /\ UNCHANGED <<plugin_status, plugin_process, store, next_request_id, last_sent_message,
                   last_received_message, op, last_result, stdout_task, reader_event,
                   ended_from, plugin, pipes, returned, outstanding, search_vars>>

\* ----------------------------------------------------------------- the child
child_frame == <<plugin_status, plugin_process, store, next_request_id, last_sent_message,
                 last_received_message, op, last_result, tasks, returned, outstanding, search_vars>>

\* plugins/echo.py, the reply to a request.
EchoReply(message) == [id |-> message.id + 1, error |-> "null", result |-> "Reply"]

\* plugins/echo.py, one turn of run(): a line is read and answered; a document
\* without an id raises KeyError, which ends the process.
EchoStep ==
    /\ plugin.kind = "echo" /\ plugin.alive
    /\ stdin_pipe # <<>>
    /\ Len(stdout_pipe) < MaxPipe
    /\ IF HasId(Head(stdin_pipe))
       THEN /\ stdout_pipe' = Append(stdout_pipe, JsonLine(EchoReply(Head(stdin_pipe))))
            /\ stdin_pipe' = Tail(stdin_pipe)
            /\ UNCHANGED plugin
       ELSE /\ plugin' = [plugin EXCEPT !.alive = FALSE]
            /\ stdin_pipe' = <<>>
            /\ UNCHANGED stdout_pipe
    /\ UNCHANGED child_frame

\* Any other child writes a line to its stdout.
PluginEmit(line) ==
    /\ plugin.kind = "other" /\ plugin.alive
    /\ Len(stdout_pipe) < MaxPipe
    /\ stdout_pipe' = Append(stdout_pipe, line)
    /\ UNCHANGED <<child_frame, plugin, stdin_pipe>>

\* The child exits (on its own, or killed): its pipes close.
PluginExit ==
    /\ plugin.alive
    /\ plugin' = [plugin EXCEPT !.alive = FALSE]
    /\ stdin_pipe' = <<>>
    /\ UNCHANGED <<child_frame, stdout_pipe>>

\* ------------------------------------------------------------ specification
Next ==
    \/ Mount
    \/ action_search
    \/ action_cancel
    \/ action_quit_plugin
    \/ QuitTerminate
    \/ action_custom_json
    \/ action_repeat_last
    \/ action_clear_history
    \/ SendRecorded
    \/ SendBroken
    \/ SendError
    \/ \E k \in 1..MaxPipe : ReadChunk(k)
    \/ ReadPartial
    \/ ReadEof
    \/ ReadBroken
    \/ ReadCrash
    \/ StderrChunk
    \/ StderrEnd
    \/ EchoStep
    \/ \E line \in PluginLines : PluginEmit(line)
    \/ PluginExit

Spec == Init /\ [][Next]_vars

\* ------------------------------------------------------- shutdown, with fairness
\* SpecLive: the session from its start to a quit and beyond.  Each read loop
\* is an asyncio task that runs when its receive has something to return: a
\* chunk, or the end of the stream once the child is gone.  A child that was
\* sent SIGTERM by terminate() exits.
NextLive ==
    \/ Mount
    \/ action_search
    \/ action_quit_plugin
    \/ QuitTerminate
    \/ SendRecorded
    \/ SendBroken
    \/ SendError
    \/ \E k \in 1..MaxPipe : ReadChunk(k)
    \/ ReadPartial
    \/ ReadEof
    \/ ReadBroken
    \/ ReadCrash
    \/ StderrChunk
    \/ StderrEnd
    \/ EchoStep
    \/ \E line \in PluginLines : PluginEmit(line)
    \/ PluginExit

LiveFairness ==
    /\ WF_vars(\E k \in 1..MaxPipe : ReadChunk(k))
    /\ WF_vars(ReadEof)
    /\ WF_vars(StderrEnd)
    /\ WF_vars(plugin_status = "Stopped" /\ PluginExit)

SpecLive == Init /\ [][NextLive]_vars /\ LiveFairness

\* ------------------------------------------------ the engine, called directly
\* SpecEngine drives _send_message by direct calls, with messages that include
\* one json.dumps cannot encode, against a child whose stdout lines include
\* those of ContentLines and whose stderr may hold bytes that are not UTF-8.
Unserializable == [id |-> 2, method |-> "search", params |-> OpaqueValue]
DirectMessages == {Request(1, "search", "calc"), Notification("cancel"), Unserializable}
ReaderLines == {JsonLine(Reply(i)) : i \in ReplyIds} \cup {MalformedLine} \cup ContentLines

\* _send_message(m)
direct_send(m) ==
    /\ op.pc = "idle"
    /\ send_message(m, "direct")
    /\ NoAllocation
    /\ UNCHANGED <<handler_frame, search_vars>>

NextEngine ==
    \/ Mount
    \/ \E m \in DirectMessages : direct_send(m)
    \/ SendRecorded
    \/ SendBroken
    \/ SendError
    \/ \E k \in 1..MaxPipe : ReadChunk(k)
    \/ ReadPartial
    \/ ReadEof
    \/ ReadBroken
    \/ ReadCrash
    \/ StderrChunk
    \/ StderrContent
    \/ StderrEnd
    \/ EchoStep
    \/ \E line \in ReaderLines : PluginEmit(line)
    \/ PluginExit

SpecEngine == Init /\ [][NextEngine]_vars

\* ------------------------------------------- MessageHistory, called directly
\* SpecHistory drives one MessageHistory by calls of its methods, so that
\* get_recent_searches is applied to every history of up to MaxHistory entries
\* and to every limit of 0..MaxLimit.
HistoryTerms == {"calc", "files", "mail"}
HistorySent ==
    {Request(1, "search", t) : t \in HistoryTerms}
        \cup {Request(2, "search", "calc"), Notification("cancel")}
HistoryReceived == {Reply(1), Reply(2), Notification("log")}

history_frame == <<plugin_status, plugin_process, next_request_id, last_sent_message,
                   last_received_message, op, last_result, tasks, plugin, pipes, returned,
                   outstanding>>

\* add_sent_message(m)
AddSentMessage(m) ==
    /\ Len(messages) < MaxHistory
    /\ clock' = clock + 1
    /\ messages' = Append(messages, SentEntry(m, clock'))
    /\ pending_requests' = PendingAfterSent(pending_requests, m, clock')
    /\ recent' = <<>>
    /\ UNCHANGED <<history_frame, search_limit>>

\* add_received_message(m)
AddReceivedMessage(m) ==
    /\ Len(messages) < MaxHistory
    /\ clock' = clock + 1
    /\ messages' = Append(messages, ReceivedEntry(pending_requests, m, clock'))
    /\ pending_requests' = PendingAfterReceived(pending_requests, m)
    /\ recent' = <<>>
    /\ UNCHANGED <<history_frame, search_limit>>

\* get_recent_searches(limit)
GetRecentSearches(limit) ==
    /\ recent' = get_recent_searches(messages, limit)
    /\ search_limit' = limit
    /\ UNCHANGED <<history_frame, store>>

NextHistory ==
    \/ \E m \in HistorySent : AddSentMessage(m)
    \/ \E m \in HistoryReceived : AddReceivedMessage(m)
    \/ \E limit \in 0..MaxLimit : GetRecentSearches(limit)

SpecHistory == Init /\ [][NextHistory]_vars

\* ------------------------------------------------------------------ claims
SentAppended ==
    /\ Len(messages') = Len(messages) + 1
    /\ messages'[Len(messages')].type = "sent"

ReceivedAppended ==
    /\ Len(messages') = Len(messages) + 1
    /\ messages'[Len(messages')].type = "received"

\* C1: in each of the five lifecycle states Stopped, Disconnected, Terminated,
\* Crashed and Failed, whatever the operator's handlers do issues no write to
\* the child's stdin, records no sent message, and what _send_message reports
\* is a refusal.
C1_InactiveSendRefused ==
    [][(op.pc = "idle" /\ plugin_status \in InactiveStates)
        => /\ op'.pc # "writing"
           /\ Len(stdin_pipe') <= Len(stdin_pipe)
           /\ ~SentAppended
           /\ last_result' \in {last_result, "inactive", "no_process", "nothing_pending",
                                "nothing_to_repeat"}]_vars

\* C2: under every interleaving of a send (which awaits its write and records
\* afterwards) with the stdout loop, whenever no send is waiting for its write,
\* an id is a key of pending_requests if and only if a request with that id was
\* written to the child and no reply with that id was received since.
C2_PendingIffOutstanding ==
    op.pc # "writing" => DOMAIN pending_requests = outstanding

\* C3: the values get_next_request_id returned are 1, then strictly increasing,
\* none twice, and the counter stays above all of them whatever else is done.
C3_IdsStrictlyIncreasing ==
    /\ Len(returned) > 0 => returned[1] = 1
    /\ \A i, j \in 1..Len(returned) : i < j => returned[i] < returned[j]
    /\ \A i \in 1..Len(returned) : returned[i] < next_request_id

\* C3 happens: ids were handed out before and after the history was cleared
\* with a request pending and a message received.
C3_Witness ==
    /\ Len(returned) >= 4
    /\ messages = <<>>
    /\ DOMAIN pending_requests # {}
    /\ last_received_message # <<>>

\* C4: the step that appends a received entry for m removes m's id from
\* pending_requests and nothing else, and gives the entry a response time, when
\* m has an id that is pending; otherwise it leaves pending_requests as it is
\* and the entry's response_time is None.
C4_ReceivedCorrelation ==
    [][ReceivedAppended
        => LET entry == messages'[Len(messages')]
               m == entry.message
           IN  IF HasId(m) /\ m.id \in DOMAIN pending_requests
               THEN /\ DOMAIN pending_requests' = DOMAIN pending_requests \ {m.id}
                    /\ \A i \in DOMAIN pending_requests' :
                          pending_requests'[i] = pending_requests[i]
                    /\ entry.response_time # NoTime
                    /\ entry.response_time >= 0
               ELSE /\ pending_requests' = pending_requests
                    /\ entry.response_time = NoTime]_vars

\* C4 happens: a request was sent and the reply to it correlated, then a second
\* reply with the same id and a message with no id were recorded with no
\* response time.
C4_Witness ==
    /\ Len(messages) = 4
    /\ messages[1].type = "sent" /\ HasId(messages[1].message) /\ messages[1].message.id = 1
    /\ \E i, j, k \in 2..Len(messages) :
          /\ i < j
          /\ messages[i].type = "received" /\ messages[i].message = Reply(1)
          /\ messages[i].response_time # NoTime
          /\ messages[j].type = "received" /\ messages[j].message = Reply(1)
          /\ messages[j].response_time = NoTime
          /\ messages[k].type = "received" /\ ~HasId(messages[k].message)
          /\ messages[k].response_time = NoTime
    /\ DOMAIN pending_requests = {}

\* C5: with the echo plugin as the child, once the request {id: 1, method:
\* search, params: calc} was sent and the reply to it was handled, the reply
\* carries id 1 and pending_requests is empty.
C5_EchoReplyCorrelates ==
    (/\ plugin.kind = "echo"
     /\ Len(messages) = 2
     /\ messages[1].type = "sent"
     /\ messages[1].message = Request(1, "search", "calc")
     /\ messages[2].type = "received")
    => /\ messages[2].message.id = 1
       /\ DOMAIN pending_requests = {}

\* C6: while the message action_repeat_last sends is being written, the id it
\* carries is not a key of pending_requests.
C6_RepeatNeverCollides ==
    (op.pc = "writing" /\ op.handler = "repeat_last" /\ HasId(op.message))
    => op.message.id \notin DOMAIN pending_requests

\* C7: action_repeat_last with a last sent message re-sends it: the document it
\* writes is the last sent one when that has no id, and is the last sent one
\* with a new, strictly greater id when it has one.
C7_RepeatResends ==
    /\ last_result = "nothing_to_repeat" => last_sent_message = <<>>
    /\ (op.pc = "writing" /\ op.handler = "repeat_last")
       => LET original == last_sent_message[1]
          IN  IF HasId(original)
              THEN /\ HasId(op.message)
                   /\ op.message.id > original.id
                   /\ [op.message EXCEPT !.id = original.id] = original
              ELSE op.message = original

LastSearch(term) ==
    CHOOSE i \in 1..Len(messages) :
        /\ IsSearch(messages[i]) /\ messages[i].message.params = term
        /\ \A j \in (i + 1)..Len(messages) :
              ~(IsSearch(messages[j]) /\ messages[j].message.params = term)

\* C8: what get_recent_searches(limit) returns for a limit >= 0 has at most
\* limit entries, no value twice, and only params of sent search messages, the
\* more recently sent first.
C8_RecentSearches ==
    /\ Len(recent) <= search_limit
    /\ \A i, j \in 1..Len(recent) : i < j => recent[i] # recent[j]
    /\ \A i \in 1..Len(recent) :
          \E k \in 1..Len(messages) :
              IsSearch(messages[k]) /\ messages[k].message.params = recent[i]
    /\ \A i, j \in 1..Len(recent) : i < j => LastSearch(recent[i]) > LastSearch(recent[j])

\* C9: the step in which a send learns that its write failed appends no entry,
\* and leaves pending_requests and last_sent_message as they were.
C9_WriteFailureLeavesStore ==
    [][(op.pc = "writing" /\ op.write # "ok" /\ op'.pc # "writing")
        => /\ messages' = messages
           /\ pending_requests' = pending_requests
           /\ last_sent_message' = last_sent_message]_vars

\* C9 happens: a write failed with BrokenResourceError after an earlier request
\* was recorded and is still pending.
C9_Witness ==
    /\ last_result = "disconnected"
    /\ messages # <<>>
    /\ DOMAIN pending_requests # {}
    /\ last_sent_message # <<>>

\* C10: a malformed stdout line is reported and changes nothing, the loop goes
\* on, and a valid reply with a pending id that follows it on stdout is received
\* and correlated once both have been read.
C10_MalformedLineHarmless ==
    /\ [][(reader_event' = "decode_error" /\ stdout_pipe' # stdout_pipe)
           => /\ stdout_task' = "reading"
              /\ UNCHANGED <<plugin_status, messages, pending_requests,
                             last_received_message>>]_vars
    /\ [][(/\ stdout_task = "reading"
           /\ Len(stdout_pipe) >= 2
           /\ stdout_pipe[1].kind = "malformed"
           /\ stdout_pipe[2].kind = "json"
           /\ Matches(pending_requests, stdout_pipe[2].message)
           /\ stdout_pipe' = SubSeq(stdout_pipe, 3, Len(stdout_pipe)))
           => /\ stdout_pipe[2].message.id \notin DOMAIN pending_requests'
              /\ ReceivedAppended]_vars

\* C11: the step that empties a non-empty history leaves pending_requests, the
\* next-id counter, the lifecycle state, last_sent_message and
\* last_received_message as they were; and a reply handled when the history is
\* empty, for a request that is still pending, is correlated: its id leaves
\* pending_requests and its entry has a response time.
C11_ClearKeepsPending ==
    /\ [][(messages # <<>> /\ messages' = <<>>)
           => UNCHANGED <<pending_requests, next_request_id, plugin_status,
                          last_sent_message, last_received_message>>]_vars
    /\ [][(messages = <<>> /\ ReceivedAppended
              /\ Matches(pending_requests, messages'[1].message))
           => /\ messages'[1].message.id \notin DOMAIN pending_requests'
              /\ messages'[1].response_time # NoTime]_vars

\* C11 happens: the history holds nothing but the correlated reply to a request
\* that was sent, and cleared from the history, before the reply came.
C11_Witness ==
    /\ Len(messages) = 1
    /\ messages[1].type = "received"
    /\ messages[1].response_time # NoTime
    /\ last_sent_message # <<>>
    /\ HasId(last_sent_message[1])

\* C12: the step in which the stdout loop, in Running, reads an empty chunk or
\* EndOfStream sets Disconnected and ends the loop; and once the loop has ended
\* that way, no handler issues a write to the child's stdin or records a sent
\* message, and what _send_message reports is a refusal.
C12_ClosedStdoutRefusesSends ==
    /\ [][(plugin_status = "Running" /\ stdout_task = "reading" /\ reader_event' = "eof"
              /\ stdout_task' = "ended")
           => plugin_status' = "Disconnected"]_vars
    /\ [][(reader_event = "eof" /\ ended_from = "Running" /\ op.pc = "idle")
           => /\ op'.pc # "writing"
              /\ Len(stdin_pipe') <= Len(stdin_pipe)
              /\ ~SentAppended
              /\ last_result' \in {last_result, "inactive", "no_process", "nothing_pending",
                                   "nothing_to_repeat"}]_vars

\* C13: whatever the lifecycle state action_quit_plugin was invoked in, the
\* step that completes it (the one after its sleep) leaves the lifecycle state
\* Stopped.
C13_QuitAlwaysStops ==
    [][(op.pc = "sleeping" /\ op'.pc = "idle") => plugin_status' = "Stopped"]_vars

\* C15: once the lifecycle state is Disconnected, Terminated, Crashed or Failed,
\* no step changes it.
C15_TerminalStates ==
    [][(plugin_status \in {"Disconnected", "Terminated", "Crashed", "Failed"})
        => plugin_status' = plugin_status]_vars

\* C18: a step that moves the lifecycle state into Disconnected, Terminated or
\* Crashed starts in Running, and once the plugin was started no step moves the
\* lifecycle state from another state into Running.
C18_OnlyFromRunning ==
    /\ [][(plugin_status' \in {"Disconnected", "Terminated", "Crashed"}
              /\ plugin_status' # plugin_status)
           => plugin_status = "Running"]_vars
    /\ [][(op.pc # "mount" /\ plugin_status # "Running")
           => plugin_status' # "Running"]_vars

\* C14: action_cancel invoked with pending_requests empty writes nothing and
\* records nothing; invoked in Running with pending_requests non-empty it issues
\* one write, of {method: cancel} with no id; a write by action_cancel is never
\* issued with pending_requests empty; and neither the step that issues it nor
\* the step that records it (one sent entry, holding that notification) changes
\* pending_requests.
C14_CancelAdvisory ==
    /\ [][(last_result # "nothing_pending" /\ last_result' = "nothing_pending")
           => /\ DOMAIN pending_requests = {}
              /\ UNCHANGED <<op, stdin_pipe, messages, pending_requests, last_sent_message>>]_vars
    /\ [][(plugin_status = "Running" /\ DOMAIN pending_requests # {} /\ action_cancel)
           => /\ op'.pc = "writing"
              /\ op'.message = Notification("cancel")]_vars
    /\ [][(op.pc = "idle" /\ op'.pc = "writing" /\ op'.handler = "cancel")
           => /\ DOMAIN pending_requests # {}
              /\ op'.message = Notification("cancel")
              /\ ~HasId(op'.message)
              /\ Len(stdin_pipe') <= Len(stdin_pipe) + 1
              /\ UNCHANGED <<messages, pending_requests>>]_vars
    /\ [][(op.pc = "writing" /\ op.handler = "cancel" /\ op'.pc = "idle")
           => /\ pending_requests' = pending_requests
              /\ stdin_pipe' = stdin_pipe
              /\ IF op.write = "ok"
                 THEN /\ SentAppended
                      /\ messages'[Len(messages')].message = Notification("cancel")
                 ELSE messages' = messages]_vars

\* C14 happens: in Running the cancel notification was written and recorded
\* while a request was pending, and the request is pending still.
C14_Witness ==
    /\ plugin_status = "Running"
    /\ op.pc = "idle"
    /\ last_result = "sent"
    /\ last_sent_message = <<Notification("cancel")>>
    /\ messages # <<>>
    /\ messages[Len(messages)].message = Notification("cancel")
    /\ DOMAIN pending_requests # {}

\* C16: the lifecycle state becomes Running only by the start, from Stopped,
\* with a process held and the stdout loop and the stderr loop launched in that
\* step; it becomes Failed only by the start, and in Failed no process is held,
\* no child exists and neither loop was launched; a read loop is launched by no
\* other step, and the start does not run again.
C16_StartOutcome ==
    /\ [][(plugin_status # "Running" /\ plugin_status' = "Running")
           => /\ op.pc = "mount" /\ plugin_status = "Stopped"
              /\ plugin_process' /\ plugin'.alive
              /\ stdout_task = "none" /\ stdout_task' = "reading"
              /\ stderr_task = "none" /\ stderr_task' = "reading"]_vars
    /\ [][(plugin_status # "Failed" /\ plugin_status' = "Failed") => op.pc = "mount"]_vars
    /\ [][(plugin_status' = "Failed")
           => /\ ~plugin_process' /\ plugin' = NoPlugin
              /\ stdout_task' = "none" /\ stderr_task' = "none"]_vars
    /\ [][(op.pc = "mount")
           => plugin_status' \in {"Running", "Failed"} /\ op'.pc # "mount"]_vars
    /\ [][(op.pc # "mount")
           => /\ op'.pc # "mount"
              /\ stdout_task' = "reading" => stdout_task = "reading"
              /\ stderr_task' = "reading" => stderr_task = "reading"]_vars

\* C16 happens: the start failed and a quit was attempted afterwards; the state
\* is still Failed with nothing launched.
C16_Witness ==
    /\ plugin_status = "Failed"
    /\ op.pc = "idle"
    /\ last_result = "no_process"
    /\ Len(returned) >= 1

\* C17: the call of _send_message in which json.dumps fails leaves the handler
\* where it was and stdin, the history, pending_requests, last_sent_message and
\* the lifecycle state as they were; and no message json.dumps cannot encode is
\* ever being written or in the history.
C17_EncodeFailureSendsNothing ==
    /\ [][(last_result # "encode_error" /\ last_result' = "encode_error")
           => UNCHANGED <<op, stdin_pipe, messages, pending_requests, last_sent_message,
                          plugin_status>>]_vars
    /\ [][(op'.pc = "writing") => Serializable(op'.message)]_vars
    /\ [][\A i \in 1..Len(messages') : Serializable(messages'[i].message)]_vars

\* C17 happens: in Running, with a request recorded and pending, a send of a
\* message that cannot be encoded was attempted.
C17_Witness ==
    /\ last_result = "encode_error"
    /\ plugin_status = "Running"
    /\ messages # <<>>
    /\ DOMAIN pending_requests # {}
    /\ last_sent_message # <<>>

\* C19: a step in which the stdout loop takes a chunk from the pipe, whatever
\* the chunk holds, leaves the loop reading and the lifecycle state as it was.
C19_ContentNeverEndsLoop ==
    [][(/\ stdout_task = "reading"
        /\ stdout_pipe' # stdout_pipe
        /\ Len(stdout_pipe') <= Len(stdout_pipe))
        => /\ stdout_task' = "reading"
           /\ plugin_status' = plugin_status]_vars

\* The JSON documents among lines, in the order written.
RECURSIVE Documents(_)
Documents(lines) ==
    IF lines = <<>> THEN <<>>
    ELSE (IF Head(lines).kind = "json" THEN <<Head(lines).message>> ELSE <<>>)
             \o Documents(Tail(lines))

\* C20: whatever part of the pipe one receive takes, the JSON documents written
\* on the lines it takes whole are each recorded as one received entry, in the
\* order written, in that step; and a receive that takes only part of a line
\* does not take part of a JSON document.
C20_EveryLineDelivered ==
    [][(/\ stdout_task = "reading"
        /\ stdout_pipe' # stdout_pipe
        /\ Len(stdout_pipe') <= Len(stdout_pipe))
        => LET k == Len(stdout_pipe) - Len(stdout_pipe')
               added == Len(messages') - Len(messages)
           IN  IF k = 0
               THEN Head(stdout_pipe).kind # "json"
               ELSE /\ added = Len(Documents(SubSeq(stdout_pipe, 1, k)))
                    /\ \A i \in 1..added :
                          /\ messages'[Len(messages) + i].type = "received"
                          /\ messages'[Len(messages) + i].message
                                = Documents(SubSeq(stdout_pipe, 1, k))[i]]_vars

\* C21: a broken pipe met in Running, by the write of a send or by a read of
\* the stdout loop, leaves the lifecycle state Terminated.
C21_BrokenPipeTerminates ==
    /\ [][(plugin_status = "Running" /\ op.pc = "writing" /\ op.write = "broken"
              /\ op'.pc # "writing")
           => plugin_status' = "Terminated"]_vars
    /\ [][(plugin_status = "Running" /\ stdout_task = "reading" /\ stdout_task' = "ended"
              /\ reader_event' = "broken")
           => plugin_status' = "Terminated"]_vars

\* C22: the step in which a send learns that its write failed, with whatever
\* exception, leaves the lifecycle state Disconnected.
C22_WriteErrorDisconnects ==
    [][(op.pc = "writing" /\ op.write # "ok" /\ op'.pc # "writing")
        => plugin_status' = "Disconnected"]_vars

\* C26: the next-id counter changes only in a step of an operator's handler
\* that allocates an id for what it is about to send: never at the start, in a
\* step of a read loop, or in the step that completes a send or a quit.
C26_DisplayReadOnly ==
    [][(next_request_id' # next_request_id)
        => /\ op.pc = "idle"
           /\ UNCHANGED <<plugin_status, messages, pending_requests, stdout_task,
                          last_sent_message, last_received_message>>]_vars

\* C23: the step in which the stderr loop ends, on an empty read, EndOfStream,
\* a broken pipe or any other exception, leaves the lifecycle state, the
\* history, pending_requests, the next-id counter, last_sent_message and
\* last_received_message as they were, and with them the stdout loop, the
\* handler in progress and both pipes; a forwarded stderr line changes no
\* variable at all.
C23_StderrLoopFrame ==
    /\ [][(stderr_task = "reading" /\ stderr_task' = "ended")
           => UNCHANGED <<plugin_status, messages, pending_requests, next_request_id,
                          last_sent_message, last_received_message, stdout_task, op,
                          stdin_pipe, stdout_pipe>>]_vars
    /\ [][StderrChunk => UNCHANGED vars]_vars

\* C23 happens: the stderr loop is over while the child still runs, the state
\* is Running, the stdout loop reads, and a request was sent and answered.
C23_Witness ==
    /\ stderr_task = "ended"
    /\ plugin.alive
    /\ plugin_status = "Running"
    /\ stdout_task = "reading"
    /\ last_sent_message # <<>>
    /\ last_received_message # <<>>

\* C25: a step that changes the history either empties it (the clear) or
\* appends one entry and leaves every entry it had, in its place, as it was;
\* and the step in which action_repeat_last gives its copy a new id and issues
\* the write leaves the history as it was.
C25_HistoryAppendOnly ==
    /\ [][(messages' # messages)
           => \/ messages' = <<>>
              \/ /\ Len(messages') = Len(messages) + 1
                 /\ \A i \in 1..Len(messages) : messages'[i] = messages[i]]_vars
    /\ [][(op.pc = "idle" /\ op'.pc = "writing" /\ op'.handler = "repeat_last")
           => messages' = messages]_vars

\* C25 happens: action_repeat_last is writing its copy, which carries a new id,
\* and the history still holds the original under the id it was sent with.
C25_Witness ==
    /\ op.pc = "writing" /\ op.handler = "repeat_last"
    /\ HasId(op.message)
    /\ Len(messages) = 1
    /\ messages[1].type = "sent"
    /\ messages[1].message = last_sent_message[1]
    /\ HasId(messages[1].message)
    /\ messages[1].message.id # op.message.id

SentWith(i, d) ==
    /\ messages[i].type = "sent"
    /\ HasId(messages[i].message)
    /\ messages[i].message.id = d

ReceivedWith(i, d) ==
    /\ messages[i].type = "received"
    /\ HasId(messages[i].message)
    /\ messages[i].message.id = d

\* The newest entry of the history as a second reply: when it is a reply to d,
\* and before it the history holds two requests sent under d with no reply to
\* d between them, then the first reply to d, and no request under d after the
\* later of the two, then the first reply is timed from the later request and
\* the newest entry has no response time.
CollisionReplies ==
    LET l == Len(messages)
    IN  (l >= 4 /\ messages[l].type = "received" /\ HasId(messages[l].message))
        => LET d == messages[l].message.id
           IN  \A k \in 3..(l - 1) : ReceivedWith(k, d) =>
               \A j \in 2..(k - 1) : SentWith(j, d) =>
               \A i \in 1..(j - 1) :
                   (/\ SentWith(i, d)
                    /\ \A n \in (i + 1)..(k - 1) : ~ReceivedWith(n, d)
                    /\ \A n \in (j + 1)..(l - 1) : ~SentWith(n, d)
                    /\ \A n \in (k + 1)..(l - 1) : ~ReceivedWith(n, d))
                   => /\ messages[k].response_time
                           = (messages[k].timestamp - messages[j].timestamp) * 1000
                      /\ messages[l].response_time = NoTime

\* C27: the step that records a sent request whose id is pending leaves the
\* keys of pending_requests and the other entries as they were and replaces the
\* timestamp under that id by the newer one, appending one sent entry; and of
\* two replies that follow, the first is timed from the newer request and
\* removes the entry, the second gets no response time.
C27_CollisionOverwrites ==
    /\ [][(SentAppended /\ HasId(messages'[Len(messages')].message)
              /\ messages'[Len(messages')].message.id \in DOMAIN pending_requests)
           => LET entry == messages'[Len(messages')]
                  d == entry.message.id
              IN  /\ DOMAIN pending_requests' = DOMAIN pending_requests
                  /\ pending_requests'[d] = entry.timestamp
                  /\ pending_requests'[d] > pending_requests[d]
                  /\ \A e \in DOMAIN pending_requests \ {d} :
                        pending_requests'[e] = pending_requests[e]]_vars
    /\ [][(ReceivedAppended /\ Matches(pending_requests, messages'[Len(messages')].message))
           => messages'[Len(messages')].message.id \notin DOMAIN pending_requests']_vars
    /\ [][CollisionReplies']_vars

\* C27 happens: two requests were sent under id 1, then two replies with id 1
\* were received; the first has a response time, the second has none, and
\* nothing is pending.
C27_Witness ==
    /\ Len(messages) = 4
    /\ SentWith(1, 1) /\ SentWith(2, 1) /\ ReceivedWith(3, 1) /\ ReceivedWith(4, 1)
    /\ messages[3].response_time = (messages[3].timestamp - messages[2].timestamp) * 1000
    /\ messages[4].response_time = NoTime
    /\ DOMAIN pending_requests = {}

\* C24: once action_quit_plugin has called terminate() on a started session
\* (a process is held and the state is Stopped), the stdout loop and the stderr
\* loop both end, by steps of their own, unless the ids of this model run out
\* first (each display refresh takes one, and none is handed out above MaxId).
C24_ReadersExitAfterQuit ==
    (plugin_process /\ plugin_status = "Stopped")
        ~> (\/ stdout_task = "ended" /\ stderr_task = "ended"
            \/ next_request_id > MaxId)

\* C24 happens: the quit notification was sent, terminate() set Stopped, and
\* after that the stdout loop read the end of its stream; both loops are over.
C24_Witness ==
    /\ plugin_process
    /\ last_sent_message = <<Notification("quit")>>
    /\ op.pc = "idle"
    /\ ended_from = "Stopped"
    /\ reader_event = "eof"
    /\ stdout_task = "ended"
    /\ stderr_task = "ended"

=============================================================================
